---- MODULE Spec2Model ----
(***************************************************************************)
(* Model of challenge_fetcher/parser.py: the conversion of one Project     *)
(* Euler challenge page into a Markdown description and a manifest of      *)
(* remote content.                                                         *)
(*                                                                         *)
(* Python strings are sequences of one-character strings, so that the      *)
(* regular expressions of the parser are computed character by character.  *)
(* The description element is modelled by its direct children; every       *)
(* child is a leaf [name, text, has_url, url]: name "#text" is a           *)
(* NavigableString, any other name is a tag whose .text is `text` and      *)
(* whose href/src attribute (when has_url) is `url`.                       *)
(***************************************************************************)
EXTENDS Integers, Sequences, FiniteSets, TLC

VARIABLES
    pc,              \* position inside parse_contents
    response_ok,     \* response.ok
    has_content,     \* soup.find("div", id="content") is not None
    has_h2,          \* page_content.find("h2") is not None
    has_description, \* page_content.find("div", class_="problem_content") is not None
    contents,        \* description.contents
    tags,            \* indexes (into contents) that content.find_all(["a", "img"]) still has to yield
    remote_content,  \* the dictionary built by convert_urls_to_markdown
    returned_content,\* value returned by convert_urls_to_markdown (None or the dictionary)
    child_elements,  \* the copy of description.contents taken by sanitise_tag_text
    description_text,\* value returned by sanitise_tag_text
    raised,          \* exception that left parse_contents ("none" while there is none)
    result,          \* value returned by parse_contents
    github_workaround, \* argument of parse_contents
    original,        \* the description's children as they were parsed (never changed)
    form,            \* the parts a generated resource URL was built from (never changed)
    function,        \* the function of the module that was called
    content          \* the tree given to a formatting converter (its argument content)

vars == <<pc, response_ok, has_content, has_h2, has_description, contents, tags,
          remote_content, returned_content, child_elements, description_text, raised,
          result, github_workaround, original, form, function, content>>

-----------------------------------------------------------------------------
(* Bounds of the explored inputs.                                          *)

MaxTags == 3
MaxChildren == 4
MaxPieces == 3
\* The most pieces a text node of the explored documents is put together from.
MaxText == 4

-----------------------------------------------------------------------------
(* Strings.                                                                *)

Digits == {"0", "1", "2", "3", "4", "5", "6", "7", "8", "9"}

Letters == {"a", "b", "c", "d", "e", "f", "g", "h", "i", "j", "k", "l", "m",
            "n", "o", "p", "q", "r", "s", "t", "u", "v", "w", "x", "y", "z"}

\* \d of the re module.
IsDigit(c) == c \in Digits

UpperLetters == {"A", "B", "C", "D", "E", "F", "G", "H", "I", "J", "K", "L", "M",
                 "N", "O", "P", "Q", "R", "S", "T", "U", "V", "W", "X", "Y", "Z"}

\* The (ASCII) characters of \w of the re module.
WordChars == Digits \cup Letters \cup UpperLetters \cup {"_"}

IsWord(c) == c \in WordChars

\* "." of the re module: any character except a newline.
IsDot(c) == c # "\n"

StartsWith(s, p) == Len(s) >= Len(p) /\ SubSeq(s, 1, Len(p)) = p

Drop(s, n) == SubSeq(s, n + 1, Len(s))

Max(S) == CHOOSE x \in S : \A y \in S : y <= x

Min(S) == CHOOSE x \in S : \A y \in S : x <= y

\* Last index e >= from such that every character of s[from..e] is in the
\* class cls (a greedy "+" over a character class); from - 1 when there is none.
RECURSIVE RunEnd(_, _, _)
RunEnd(s, from, cls) ==
    IF from <= Len(s) /\ s[from] \in cls THEN RunEnd(s, from + 1, cls) ELSE from - 1

RECURSIVE Concat(_)
Concat(ss) == IF ss = <<>> THEN <<>> ELSE Head(ss) \o Concat(Tail(ss))

\* Last index of the run of non-newline characters that starts at from (a
\* greedy ".+" or ".*"); from - 1 when s[from] is a newline or past the end.
RECURSIVE DotRunEnd(_, _)
DotRunEnd(s, from) ==
    IF from <= Len(s) /\ IsDot(s[from]) THEN DotRunEnd(s, from + 1) ELSE from - 1

-----------------------------------------------------------------------------
(* String literals of the parser.                                          *)

S_problem == <<"p", "r", "o", "b", "l", "e", "m", "=">>

S_about == <<"a", "b", "o", "u", "t", "=">>

S_project == <<"p", "r", "o", "j", "e", "c", "t", "/">>

S_resources == <<"r", "e", "s", "o", "u", "r", "c", "e", "s">>

S_images == <<"i", "m", "a", "g", "e", "s">>

\* challenge_fetcher.scraper.URL_BASE
URL_BASE ==
    <<"h", "t", "t", "p", "s", ":", "/", "/", "p", "r", "o", "j", "e", "c", "t",
      "e", "u", "l", "e", "r", ".", "n", "e", "t", "/">>

\* challenge_fetcher.scraper.CHALLENGE_URL_BASE
CHALLENGE_URL_BASE == URL_BASE \o S_problem

-----------------------------------------------------------------------------
(* The compiled regular expressions, each as the result of .search().      *)

NoMatch == [matched |-> FALSE, group |-> <<>>]

\* CHALLENGE_URL_REGEX with \d in place of \d+: one digit of the number.
CHALLENGE_URL_REGEX_OneDigit(url) ==
    LET p == Len(S_problem)
    IN  IF StartsWith(url, S_problem) /\ Len(url) > p /\ IsDigit(url[p + 1])
        THEN [matched |-> TRUE, group |-> <<url[p + 1]>>]
        ELSE NoMatch

\* r"^problem=(?P<number>\d+)": group is the named group "number".
CHALLENGE_URL_REGEX(url) ==
    LET p == Len(S_problem)
    IN  IF StartsWith(url, S_problem) /\ Len(url) > p /\ IsDigit(url[p + 1])
        THEN [matched |-> TRUE, group |-> SubSeq(url, p + 1, RunEnd(url, p + 1, Digits))]
        ELSE NoMatch

\* r"^about=(\w+)": group is group 1.
ABOUT_URL_REGEX(url) ==
    LET p == Len(S_about)
    IN  IF StartsWith(url, S_about) /\ Len(url) > p /\ IsWord(url[p + 1])
        THEN [matched |-> TRUE, group |-> SubSeq(url, p + 1, RunEnd(url, p + 1, WordChars))]
        ELSE NoMatch

\* r"^(project\/)?(resources|images)\/(.+\/)?(?P<filename>.+)" tried with the
\* first k characters taken by the optional group (project\/)?: group is the
\* named group "filename".  The greedy (.+\/)? ends at the last "/" that has
\* a character before it and a character after it on the same line; the greedy
\* filename runs to the end of the line.
ResourceMatchFrom(url, k) ==
    LET rest == Drop(url, k)
        dir  == IF StartsWith(rest, S_resources) THEN Len(S_resources)
                ELSE IF StartsWith(rest, S_images) THEN Len(S_images)
                ELSE 0
        q    == k + dir + 1                       \* index of the "/" after the directory
        L    == DotRunEnd(url, q + 1)             \* end of the line
        J    == {j \in (q + 2)..(L - 1) : url[j] = "/"}
        from == IF J # {} THEN Max(J) + 1 ELSE q + 1
    IN  IF dir > 0 /\ Len(url) >= q /\ url[q] = "/" /\ L >= q + 1
        THEN [matched |-> TRUE, group |-> SubSeq(url, from, L)]
        ELSE NoMatch

RESOURCE_URL_REGEX(url) ==
    IF StartsWith(url, S_project) /\ ResourceMatchFrom(url, Len(S_project)).matched
    THEN ResourceMatchFrom(url, Len(S_project))
    ELSE ResourceMatchFrom(url, 0)

\* r"^(?:.+?_)?(?P<filename>.+\..+?)(?:\?.*)?$": group is the named group
\* "filename".  No "." crosses a newline and "$" is the end of the string or
\* the place before a final newline.  The lazy (?:.+?_)? stops at the first
\* underscore after which the rest can still match, and is skipped when there
\* is none; the greedy ".+" of the filename runs to the last "." that has a
\* character after it; the lazy ".+?" of the extension stops at the first place
\* that is the end or is followed by "?".
FILE_NAME_REGEX(file_name) ==
    LET n    == Len(file_name)
        m    == IF n > 0 /\ file_name[n] = "\n" THEN n - 1 ELSE n
        r    == SubSeq(file_name, 1, m)
        Dots(i) == {d \in (i + 2)..(m - 1) : r[d] = "."}
        I    == {i \in 2..m : r[i] = "_" /\ Dots(i) # {}}
        i0   == IF I # {} THEN Min(I) ELSE 0
        d0   == Max(Dots(i0))
        e0   == Min({e \in (d0 + 1)..m : e = m \/ r[e + 1] = "?"})
    IN  IF (\A j \in 1..m : IsDot(r[j])) /\ Dots(i0) # {}
        THEN [matched |-> TRUE, group |-> SubSeq(r, i0 + 1, e0)]
        ELSE NoMatch

-----------------------------------------------------------------------------
(* Python values.                                                          *)

\* An empty dict.
EmptyDict == [k \in {} |-> <<>>]

\* dict[str, str] | None
NoneDict == [is_none |-> TRUE, dict |-> EmptyDict]

SomeDict(d) == [is_none |-> FALSE, dict |-> d]

\* tag.get("href") / tag.get("src"): None when the attribute is absent.
AttrValue(tag) == [is_none |-> ~tag.has_url, str |-> tag.url]

-----------------------------------------------------------------------------
(* sanitise_file_name and replace_tag_with_markdown_url.                   *)

\* sanitise_file_name without the check of the match: a name the pattern
\* finds nothing in is returned as it is.
sanitise_file_name_Unchecked(file_name) ==
    LET filename_match == FILE_NAME_REGEX(file_name)
    IN  [raised |-> "none",
         value  |-> IF filename_match.matched THEN filename_match.group ELSE file_name]

\* Returns the named group, or raises ValueError when the pattern finds nothing.
sanitise_file_name(file_name) ==
    LET filename_match == FILE_NAME_REGEX(file_name)
    IN  IF ~filename_match.matched
        THEN [raised |-> "ValueError", value |-> <<>>]
        ELSE [raised |-> "none", value |-> filename_match.group]

\* MarkdownLink without the "!" of an image.
MarkdownLink_NoImage(link_text, url, is_image) ==
    <<"[">> \o link_text \o <<"]", "(">> \o url \o <<")">>

\* Lines 555-560: the Markdown link, with "!" in front of it for an image.
MarkdownLink(link_text, url, is_image) ==
    (IF is_image THEN <<"!">> ELSE <<>>) \o <<"[">> \o link_text \o <<"]", "(">> \o url \o <<")">>

\* Line 508: the URL of the challenge page.
challenge_url(challenge_number) == CHALLENGE_URL_BASE \o challenge_number

\* remote_url without the base URL.
remote_url_Relative(url) == url

\* Line 521: the URL the resource is downloaded from.
remote_url(url) == URL_BASE \o url

\* Line 525: the local reference to the downloaded file.
local_url(file_name) == <<".", "/">> \o file_name

\* about_url without the base URL.
about_url_Relative(url) == url

\* Line 544: the URL of the about page.
about_url(url) == URL_BASE \o url

\* AlreadyRecorded without the look-up: a second resource overwrites the first.
AlreadyRecorded_Never(file_name, dict) == FALSE

\* Line 529: is the file name already a key of the dictionary?
AlreadyRecorded(file_name, dict) == file_name \in DOMAIN dict

Raise(exception, dict) == [raised |-> exception, text |-> <<>>, remote_content |-> dict]

\* A variant whose duplicate check lets through a file name that is recorded
\* with the very URL of the tag.
replace_tag_with_markdown_url_SameUrlAllowed(tag, url, dict, is_image) ==
    IF url.is_none THEN Raise("TypeError", dict)
    ELSE
    LET challenge_match == CHALLENGE_URL_REGEX(url.str)
        resource_match  == RESOURCE_URL_REGEX(url.str)
        about_match     == ABOUT_URL_REGEX(url.str)
    IN  IF challenge_match.matched THEN
            [raised |-> "none",
             text |-> MarkdownLink(tag.text, challenge_url(challenge_match.group), is_image),
             remote_content |-> dict]
        ELSE IF resource_match.matched THEN
            LET file_name == sanitise_file_name(resource_match.group)
            IN  IF file_name.raised # "none" THEN Raise(file_name.raised, dict)
                ELSE IF /\ AlreadyRecorded(file_name.value, dict)
                        /\ dict[file_name.value] # remote_url(url.str)
                     THEN Raise("KeyError", dict)
                ELSE [raised |-> "none",
                      text |-> MarkdownLink(file_name.value, local_url(file_name.value), is_image),
                      remote_content |->
                          [k \in DOMAIN dict \cup {file_name.value} |->
                              IF k = file_name.value THEN remote_url(url.str) ELSE dict[k]]]
        ELSE IF about_match.matched THEN
            [raised |-> "none",
             text |-> MarkdownLink(tag.text, about_url(url.str), is_image),
             remote_content |-> dict]
        ELSE Raise("NotImplementedError", dict)

\* The result of the call: the exception raised ("none" when it returns), the
\* string the tag is replaced with, and the dictionary as the call leaves it.
\* re's search() raises TypeError when it is given None instead of a string.
replace_tag_with_markdown_url(tag, url, dict, is_image) ==
    IF url.is_none THEN Raise("TypeError", dict)
    ELSE
    LET challenge_match == CHALLENGE_URL_REGEX(url.str)
        resource_match  == RESOURCE_URL_REGEX(url.str)
        about_match     == ABOUT_URL_REGEX(url.str)
    IN  IF challenge_match.matched THEN
            [raised |-> "none",
             text |-> MarkdownLink(tag.text, challenge_url(challenge_match.group), is_image),
             remote_content |-> dict]
        ELSE IF resource_match.matched THEN
            LET file_name == sanitise_file_name(resource_match.group)
            IN  IF file_name.raised # "none" THEN Raise(file_name.raised, dict)
                ELSE IF AlreadyRecorded(file_name.value, dict) THEN Raise("KeyError", dict)
                ELSE [raised |-> "none",
                      text |-> MarkdownLink(file_name.value, local_url(file_name.value), is_image),
                      remote_content |->
                          [k \in DOMAIN dict \cup {file_name.value} |->
                              IF k = file_name.value THEN remote_url(url.str) ELSE dict[k]]]
        ELSE IF about_match.matched THEN
            [raised |-> "none",
             text |-> MarkdownLink(tag.text, about_url(url.str), is_image),
             remote_content |-> dict]
        ELSE Raise("NotImplementedError", dict)

-----------------------------------------------------------------------------
(* str methods used by sanitise_tag_text.                                  *)

\* The non-breaking space U+00A0: one character, whitespace to str.isspace()
\* and to str.strip().
NBSP == " "

\* The whitespace characters that occur in the modelled documents.
Whitespace == {" ", "\n", "\t", "\r", NBSP}

\* str.isspace(): at least one character, and all of them whitespace.
isspace(s) == Len(s) > 0 /\ \A i \in 1..Len(s) : s[i] \in Whitespace

\* str.strip(chars): drop the leading and the trailing characters that are in chars.
StripChars(s, chars) ==
    LET keep == {i \in 1..Len(s) : s[i] \notin chars}
    IN  IF keep = {} THEN <<>> ELSE SubSeq(s, Min(keep), Max(keep))

\* str.strip()
strip(s) == StripChars(s, Whitespace)

\* Does pat occur in s at index i?
OccursAt(s, pat, i) ==
    i >= 1 /\ i + Len(pat) - 1 <= Len(s) /\ SubSeq(s, i, i + Len(pat) - 1) = pat

\* str.replace(old, new) on the part of s from index i on: the occurrences of
\* old are replaced from left to right, without overlap.
RECURSIVE ReplaceFrom(_, _, _, _)
ReplaceFrom(s, old, new, i) ==
    IF i > Len(s) THEN <<>>
    ELSE IF OccursAt(s, old, i) THEN new \o ReplaceFrom(s, old, new, i + Len(old))
    ELSE <<s[i]>> \o ReplaceFrom(s, old, new, i + 1)

replace(s, old, new) == ReplaceFrom(s, old, new, 1)

-----------------------------------------------------------------------------
(* The substitutions of sanitise_tag_text.                                 *)

S_begin == <<"\\", "b", "e", "g", "i", "n", "{">>

S_end == <<"\\", "e", "n", "d", "{">>

S_operatorname == <<"\\", "o", "p", "e", "r", "a", "t", "o", "r", "n", "a", "m", "e">>

S_mathop_text == <<"\\", "m", "a", "t", "h", "o", "p", "{", "\\", "t", "e", "x", "t", "{">>

S_text == <<"\\", "t", "e", "x", "t", "{">>

\* Does pat end at index i of s (a look-behind at the place after i)?
EndsAt(s, pat, i) == OccursAt(s, pat, i - Len(pat) + 1)

\* Only the opening brace is escaped.
escape_braces_OpenOnly(t) == replace(t, <<"\\", "{">>, <<"\\", "\\", "{">>)

\* description_text.replace("\\{", "\\\\{").replace("\\}", "\\\\}")
escape_braces(t) ==
    replace(replace(t, <<"\\", "{">>, <<"\\", "\\", "{">>), <<"\\", "}">>, <<"\\", "\\", "}">>)

\* MULTILINE_LATEX_REGEX tried at index i: the index of the last character of
\* the match, 0 when there is none.  The lazy body ends at the first "\end{"
\* that has a word, "}" and neither "$$" nor "\n$$" after it.
MultilineMatchEnd(s, i) ==
    LET nameEnd == RunEnd(s, i + Len(S_begin), WordChars)
        body    == nameEnd + 2
        Close(k) == RunEnd(s, k + Len(S_end), WordChars) + 1
        EndOK(k) ==
            /\ OccursAt(s, S_end, k)
            /\ Close(k) > k + Len(S_end)
            /\ Close(k) <= Len(s)
            /\ s[Close(k)] = "}"
            /\ ~OccursAt(s, <<"$", "$">>, Close(k) + 1)
            /\ ~OccursAt(s, <<"\n", "$", "$">>, Close(k) + 1)
        K == {k \in (body + 1)..Len(s) : EndOK(k)}
    IN  IF /\ ~EndsAt(s, <<"$", "$">>, i - 1)
           /\ ~EndsAt(s, <<"$", "$", "\n">>, i - 1)
           /\ OccursAt(s, S_begin, i)
           /\ nameEnd >= i + Len(S_begin)
           /\ nameEnd + 1 <= Len(s)
           /\ s[nameEnd + 1] = "}"
           /\ K # {}
        THEN Close(Min(K))
        ELSE 0

\* re.sub(MULTILINE_LATEX_REGEX, MULTILINE_LATEX_REPLACEMENT_PATTERN, s) on the
\* part of s from index i on: every match becomes "$$\n" match "\n$$".
RECURSIVE MultilineSubFrom(_, _)
MultilineSubFrom(s, i) ==
    IF i > Len(s) THEN <<>>
    ELSE LET e == MultilineMatchEnd(s, i)
         IN  IF e > 0
             THEN <<"$", "$", "\n">> \o SubSeq(s, i, e) \o <<"\n", "$", "$">>
                  \o MultilineSubFrom(s, e + 1)
             ELSE <<s[i]>> \o MultilineSubFrom(s, i + 1)

wrap_multiline_latex(t) == MultilineSubFrom(t, 1)

\* r"\\operatorname\{(.+?)\}(.+?)=" tried at index i: the indexes of the "}"
\* and of the "=" that end the two lazy groups, <<0, 0>> when there is no match.
OperatornameMatch(s, i) ==
    LET a == i + Len(S_operatorname) + 1         \* first character of group 1
        L == DotRunEnd(s, a)
        Eq(b) == {e \in (b + 2)..L : s[e] = "="}
        B == {b \in (a + 1)..L : s[b] = "}" /\ Eq(b) # {}}
    IN  IF OccursAt(s, S_operatorname \o <<"{">>, i) /\ B # {}
        THEN <<Min(B), Min(Eq(Min(B)))>>
        ELSE <<0, 0>>

\* re.sub(pattern, r"\\mathop{\\text{\1}}\2=", s) on the part of s from index i on.
RECURSIVE OperatornameSubFrom(_, _)
OperatornameSubFrom(s, i) ==
    IF i > Len(s) THEN <<>>
    ELSE LET m == OperatornameMatch(s, i)
             a == i + Len(S_operatorname) + 1
         IN  IF m[1] > 0
             THEN S_mathop_text \o SubSeq(s, a, m[1] - 1) \o <<"}", "}">>
                  \o SubSeq(s, m[1] + 1, m[2] - 1) \o <<"=">>
                  \o OperatornameSubFrom(s, m[2] + 1)
             ELSE <<s[i]>> \o OperatornameSubFrom(s, i + 1)

\* The \operatorname workaround, applied when the text contains "\operatorname".
operatorname_workaround(t) ==
    IF \E i \in 1..Len(t) : OccursAt(t, S_operatorname, i)
    THEN OperatornameSubFrom(t, 1)
    ELSE t

\* LATEX_WORKAROUND_REGEX tried at index i: the index of the closing "$", 0
\* when there is no match.
LatexMatchClose(s, i) ==
    LET D == {j \in (i + 1)..Len(s) : s[j] = "$"}
    IN  IF /\ i <= Len(s)
           /\ s[i] = "$"
           /\ (i = 1 \/ s[i - 1] # "$")
           /\ D # {}
           /\ Min(D) >= i + 2
           /\ (Min(D) = Len(s) \/ s[Min(D) + 1] # "$")
        THEN Min(D)
        ELSE 0

\* The replacement of one match: expression and the optional text group.
latex_regex_repl(expression, text) ==
    <<"$">> \o (IF text # <<>> THEN expression \o S_text \o text \o <<"}">> ELSE expression)
    \o <<"$">>

\* re.sub(LATEX_WORKAROUND_REGEX, latex_regex_repl, s) on the part of s from index i on.
RECURSIVE LatexSubFrom(_, _)
LatexSubFrom(s, i) ==
    IF i > Len(s) THEN <<>>
    ELSE LET j == LatexMatchClose(s, i)
             w == RunEnd(s, j + 1, WordChars)    \* end of the greedy (\w+)?
         IN  IF j > 0
             THEN latex_regex_repl(SubSeq(s, i + 1, j - 1), SubSeq(s, j + 1, w))
                  \o LatexSubFrom(s, w + 1)
             ELSE <<s[i]>> \o LatexSubFrom(s, i + 1)

latex_workaround(t) == LatexSubFrom(t, 1)

\* Lines 650-691 of sanitise_tag_text: the text after the substitutions.
post_process(t, github_workarounds) ==
    LET wrapped == wrap_multiline_latex(escape_braces(t))
    IN  IF github_workarounds
        THEN latex_workaround(operatorname_workaround(wrapped))
        ELSE wrapped

-----------------------------------------------------------------------------
(* The children of the description element.                                *)

\* A NavigableString: what tag.replace_with(text) puts in the tag's place.
NavigableString(id, text) ==
    [id |-> id, name |-> "#text", text |-> text, has_url |-> FALSE, url |-> <<>>]

\* a == b of bs4: two NavigableStrings are equal when their text is, two tags
\* when their name, attributes and contents are; `id` is the object's identity.
Equal(a, b) ==
    a.name = b.name /\ a.text = b.text /\ a.has_url = b.has_url /\ a.url = b.url

\* description.contents.remove(child): list.remove drops the first element
\* that is equal to child.
ListRemove(cs, child) ==
    LET I == {i \in 1..Len(cs) : Equal(cs[i], child)}
    IN  IF I = {} THEN cs
        ELSE SubSeq(cs, 1, Min(I) - 1) \o SubSeq(cs, Min(I) + 1, Len(cs))

\* child.replace_with(text): the string takes the place of the object child.
ReplaceWith(cs, child, text) ==
    [i \in 1..Len(cs) |->
        IF cs[i].id = child.id THEN NavigableString(child.id, text) ELSE cs[i]]

\* get_text(separator="", strip=False) of the description.
get_text(cs) == Concat([i \in 1..Len(cs) |-> cs[i].text])

\* content.find_all(["a", "img"]): the indexes of the hyperlink and image tags.
RECURSIVE FindLinks(_, _)
FindLinks(cs, i) ==
    IF i > Len(cs) THEN <<>>
    ELSE (IF cs[i].name \in {"a", "img"} THEN <<i>> ELSE <<>>) \o FindLinks(cs, i + 1)

-----------------------------------------------------------------------------
(* sanitise_tag_text.                                                      *)

\* "\n" + child.get_text(separator="", strip=False).strip("\n") + "\n"
child_text(child) == <<"\n">> \o StripChars(child.text, {"\n"}) \o <<"\n">>

\* The loop over the copy of description.contents (lines 615-633): the
\* contents of the description after the children of the copy were
\* removed or replaced (children: the part of the copy still to visit).
RECURSIVE SanitiseChildren(_, _)
SanitiseChildren(cs, children) ==
    IF children = <<>> THEN cs
    ELSE LET child == Head(children)
         IN  IF isspace(child.text)
             THEN SanitiseChildren(ListRemove(cs, child), Tail(children))
             ELSE SanitiseChildren(ReplaceWith(cs, child, child_text(child)),
                                   Tail(children))

\* The text after line 641: the text of the description, stripped.
assembled_text(cs) == strip(get_text(SanitiseChildren(cs, cs)))

\* sanitise_tag_text: the copy it takes of the contents, the contents it leaves
\* and the string it returns.
sanitise_tag_text(cs, github_workarounds) ==
    [child_elements |-> cs,
     contents       |-> SanitiseChildren(cs, cs),
     text           |-> post_process(assembled_text(cs), github_workarounds)]

-----------------------------------------------------------------------------
(* The documents explored.                                                 *)

Tag(name, text, url) == [name |-> name, text |-> text, has_url |-> TRUE, url |-> url]

TagWithoutUrl(name, text) == [name |-> name, text |-> text, has_url |-> FALSE, url |-> <<>>]

Text(text) == [name |-> "#text", text |-> text, has_url |-> FALSE, url |-> <<>>]

\* The children get their identities (their places in the parsed document).
Document(children) ==
    [i \in 1..Len(children) |->
        [id |-> i, name |-> children[i].name, text |-> children[i].text,
         has_url |-> children[i].has_url, url |-> children[i].url]]

SeqsUpTo(S, n) == UNION {[1..k -> S] : k \in 0..n}

\* Hyperlinks and images of every classification, two pairs of resources that
\* sanitise to one file name, a link without href, and a paragraph.
LinkPool ==
    { Tag("a", <<"t">>, S_problem \o <<"1", "2">>),
      Tag("a", <<"u">>, S_about \o <<"x">>),
      Tag("a", <<"t">>, S_project \o S_resources \o <<"/", "p", "1", "_", "a", ".", "t">>),
      Tag("a", <<"t">>, S_resources \o <<"/", "d", "/", "p", "2", "_", "a", ".", "t", "?", "1">>),
      Tag("img", <<>>, S_project \o S_images \o <<"/", "p", "1", "_", "b", ".", "g">>),
      Tag("img", <<>>, S_images \o <<"/", "p", "1", "_", "a", ".", "t">>),
      Tag("a", <<"t">>, <<"x", ".", "t">>),
      TagWithoutUrl("a", <<"t">>),
      TagWithoutUrl("p", <<"w">>) }

\* Text nodes and tags: whitespace only, empty, with leading and trailing
\* newlines and with inner whitespace; a bold element.
TextPool ==
    { Text(<<"\n", "\n">>),
      Text(<<" ", "a", " ">>),
      TagWithoutUrl("br", <<>>),
      TagWithoutUrl("p", <<"\n", " ">>),
      TagWithoutUrl("p", <<"\n", "a", " ", "b", "\n", "\n">>),
      TagWithoutUrl("b", <<"w">>) }

\* URLs put together from the words the three patterns look for.
Pieces ==
    { S_problem, S_about, S_project, S_resources \o <<"/">>, S_images \o <<"/">>,
      <<"1">>, <<"a">>, <<"_">>, <<".">>, <<"/">> }

PieceUrls == {Concat(ps) : ps \in SeqsUpTo(Pieces, MaxPieces)}

\* Resource URLs <prefix>/(resources|images)/<subpath>/<id>_<name>.<ext>?<query>.
\* An href may end in "/": nothing in the patterns tells it from an extension.
Forms ==
    [is_form : {TRUE},
     prefix  : {<<>>, S_project},
     dir     : {S_resources, S_images},
     subpath : {<<>>, <<"d", "/">>},
     id      : {<<"p", "1">>},
     name    : {<<"a">>, <<"a", "_", "b">>},
     ext     : {<<"t">>, <<"t", "x">>, <<"t", "/">>},
     query   : {<<>>, <<"?", "1">>, <<"?", "v", "=", "1", ".", "2">>, <<"?", "r", "=", "/", "x">>}]

FormUrl(f) ==
    f.prefix \o f.dir \o <<"/">> \o f.subpath \o f.id \o <<"_">> \o f.name \o <<".">> \o f.ext
    \o f.query

NoForm ==
    [is_form |-> FALSE, prefix |-> <<>>, dir |-> <<>>, subpath |-> <<>>, id |-> <<>>,
     name |-> <<>>, ext |-> <<>>, query |-> <<>>]

\* Texts of backslashes, braces and a letter.
BraceTexts == {Concat(ps) : ps \in SeqsUpTo({<<"\\">>, <<"{">>, <<"}">>, <<"a">>}, MaxText)}

\* Texts of the delimiters of a LaTeX environment, "$$", a newline and a letter.
MultilineTexts ==
    {Concat(ps) : ps \in SeqsUpTo({S_begin \o <<"a", "}">>, S_end \o <<"a", "}">>,
                                   <<"$", "$">>, <<"\n">>, <<"x">>}, MaxText)}

\* Texts of inline expressions (alone and with a word right after), block
\* expressions, words and spaces.
InlineTexts ==
    {Concat(ps) : ps \in SeqsUpTo({<<"$", "a", "$">>, <<"$", "$", "a", "$", "$">>,
                                   <<"$", "a", "$", "w">>, <<"w">>, <<" ">>}, MaxText)}

\* Texts of \operatorname{a}, a letter, "=" and a newline.
OperatornameTexts ==
    {Concat(ps) : ps \in SeqsUpTo({S_operatorname \o <<"{", "a", "}">>,
                                   S_operatorname \o <<"{", "a", "}", "x">>,
                                   <<"x">>, <<"=">>, <<"\n">>}, MaxText)}

\* Texts of non-breaking spaces, spaces and a letter.
SpaceTexts == {Concat(ps) : ps \in SeqsUpTo({<<NBSP>>, <<" ">>, <<"a">>}, MaxText)}

\* What the page holds: a failed response, a page without the content <div>,
\* without the <h2>, without the description <div>, or a complete page.
Structures ==
    { <<FALSE, TRUE, TRUE, TRUE>>, <<TRUE, FALSE, FALSE, FALSE>>, <<TRUE, TRUE, FALSE, TRUE>>,
      <<TRUE, TRUE, TRUE, FALSE>>, <<TRUE, TRUE, TRUE, TRUE>> }

-----------------------------------------------------------------------------
(* parse_contents.                                                         *)

NoResult == [is_none |-> TRUE, description |-> <<>>, remote_content |-> NoneDict]

Challenge(description, dict) ==
    [is_none |-> FALSE, description |-> description, remote_content |-> dict]

InitWith(children, f) ==
    /\ pc = "start"
    /\ \E st \in Structures :
          /\ response_ok = st[1]
          /\ has_content = st[2]
          /\ has_h2 = st[3]
          /\ has_description = st[4]
    /\ github_workaround \in BOOLEAN
    /\ original = Document(children)
    /\ contents = original
    /\ form = f
    /\ tags = <<>>
    /\ remote_content = EmptyDict
    /\ returned_content = NoneDict
    /\ child_elements = <<>>
    /\ description_text = <<>>
    /\ raised = "none"
    /\ result = NoResult
    /\ function = "parse_contents"
    /\ content = <<>>

\* A complete page whose description is one text node.
InitText(t) ==
    /\ pc = "start"
    /\ response_ok = TRUE
    /\ has_content = TRUE
    /\ has_h2 = TRUE
    /\ has_description = TRUE
    /\ github_workaround \in BOOLEAN
    /\ original = Document(<<Text(t)>>)
    /\ contents = original
    /\ form = NoForm
    /\ tags = <<>>
    /\ remote_content = EmptyDict
    /\ returned_content = NoneDict
    /\ child_elements = <<>>
    /\ description_text = <<>>
    /\ raised = "none"
    /\ result = NoResult
    /\ function = "parse_contents"
    /\ content = <<>>

Init ==
    \/ \E children \in SeqsUpTo(LinkPool, MaxTags) : InitWith(children, NoForm)
    \/ \E children \in SeqsUpTo(TextPool, MaxChildren) : InitWith(children, NoForm)
    \/ \E url \in PieceUrls : InitWith(<<Tag("a", <<"t">>, url)>>, NoForm)
    \/ \E f \in Forms, name \in {"a", "img"} : InitWith(<<Tag(name, <<>>, FormUrl(f))>>, f)
    \/ \E t \in BraceTexts : InitText(t)
    \/ \E t \in MultilineTexts : InitText(t)
    \/ \E t \in InlineTexts : InitText(t)
    \/ \E t \in OperatornameTexts : InitText(t)
    \/ \E t \in SpaceTexts : InitText(t)

\* Lines 219-247: the response, the content <div>, the title and the
\* description are looked up.  page_content.find("h2") is None when the <h2>
\* is missing, and None has no attribute "text".
Locate ==
    /\ pc = "start"
    /\ IF ~response_ok THEN pc' = "returned" /\ raised' = raised
       ELSE IF ~has_content THEN pc' = "raised" /\ raised' = "ValueError"
       ELSE IF ~has_h2 THEN pc' = "raised" /\ raised' = "AttributeError"
       ELSE IF ~has_description THEN pc' = "raised" /\ raised' = "ValueError"
       ELSE pc' = "convert_urls" /\ raised' = raised
    /\ tags' = IF pc' = "convert_urls" THEN FindLinks(contents, 1) ELSE tags
    /\ UNCHANGED <<response_ok, has_content, has_h2, has_description, contents,
                   remote_content, returned_content, child_elements, description_text, result,
                   github_workaround, original, form, function, content>>

\* One turn of the loop of convert_urls_to_markdown (lines 439-462).
ConvertTag ==
    /\ pc = "convert_urls"
    /\ tags # <<>>
    /\ LET tag      == contents[Head(tags)]
           is_image == tag.name = "img"
           r        == replace_tag_with_markdown_url(tag, AttrValue(tag), remote_content, is_image)
       IN  /\ remote_content' = r.remote_content
           /\ raised' = r.raised
           /\ IF r.raised = "none"
              THEN /\ contents' = ReplaceWith(contents, tag, r.text)
                   /\ tags' = Tail(tags)
                   /\ pc' = pc
              ELSE /\ pc' = "raised"
                   /\ UNCHANGED <<contents, tags>>
    /\ UNCHANGED <<response_ok, has_content, has_h2, has_description, returned_content,
                   child_elements, description_text, result, github_workaround,
                   original, form, function, content>>

\* The end of convert_urls_to_markdown (lines 464-469): None for an empty dictionary.
ConvertReturn ==
    /\ pc = "convert_urls"
    /\ tags = <<>>
    /\ returned_content' = IF remote_content = EmptyDict THEN NoneDict
                           ELSE SomeDict(remote_content)
    /\ pc' = "sanitise"
    /\ UNCHANGED <<response_ok, has_content, has_h2, has_description, contents, tags,
                   remote_content, child_elements, description_text, raised, result,
                   github_workaround, original, form, function, content>>

\* Line 253: the call of sanitise_tag_text.
Sanitise ==
    /\ pc = "sanitise"
    /\ LET r == sanitise_tag_text(contents, github_workaround)
       IN  /\ child_elements' = r.child_elements
           /\ contents' = r.contents
           /\ description_text' = r.text
    /\ pc' = "construct"
    /\ UNCHANGED <<response_ok, has_content, has_h2, has_description, tags, remote_content,
                   returned_content, raised, result, github_workaround,
                   original, form, function, content>>

\* Lines 256-262: the Challenge is built and returned.
Return ==
    /\ pc = "construct"
    /\ result' = Challenge(description_text, returned_content)
    /\ pc' = "returned"
    /\ UNCHANGED <<response_ok, has_content, has_h2, has_description, contents, tags,
                   remote_content, returned_content, child_elements, description_text, raised,
                   github_workaround, original, form, function, content>>

Next == Locate \/ ConvertTag \/ ConvertReturn \/ Sanitise \/ Return

Spec == Init /\ [][Next]_vars

-----------------------------------------------------------------------------
(* The tree of bs4 the formatting converters work on.                      *)

\* tag.parent is None: the element is not part of a tree.
NoParent == -1

\* tag.get("class"): None when the attribute is absent, else the list of the
\* class names.
NoClass == [is_none |-> TRUE, list |-> <<>>]

Class(name) == [is_none |-> FALSE, list |-> <<name>>]

\* A tag and a string of the tree.  parent is the index of the parent, 0 for
\* the element the converter was given (the description <div>); order is the
\* element's place in document order.
Element(name, class, parent) ==
    [name |-> name, class |-> class, parent |-> parent, text |-> <<>>, order |-> 0]

String(text, parent) ==
    [name |-> "#text", class |-> NoClass, parent |-> parent, text |-> text, order |-> 0]

\* The name of the element at index id; index 0 is the description <div>.
NameOf(tree, id) == IF id = 0 THEN "div" ELSE tree[id].name

\* Is the element at index a an ancestor of the one at index x?
RECURSIVE IsAncestor(_, _, _)
IsAncestor(tree, a, x) ==
    LET parent == tree[x].parent
    IN  parent = a \/ (parent > 0 /\ IsAncestor(tree, a, parent))

\* The texts of the elements of S, joined in document order.
RECURSIVE JoinInOrder(_, _)
JoinInOrder(tree, S) ==
    IF S = {} THEN <<>>
    ELSE LET x == CHOOSE x \in S : \A y \in S : tree[x].order <= tree[y].order
         IN  tree[x].text \o JoinInOrder(tree, S \ {x})

\* tag.text: the strings below the element, joined.
TextOf(tree, id) ==
    JoinInOrder(tree, {x \in 1..Len(tree) : tree[x].name = "#text" /\ IsAncestor(tree, id, x)})

\* tag.findChild(name): is there an element of one of the names below the tag?
FindChild(tree, id, names) ==
    \E x \in 1..Len(tree) : tree[x].name \in names /\ IsAncestor(tree, id, x)

\* content.find_all(names): the elements of these names below content, in
\* document order, from index i on.
RECURSIVE FindAll(_, _, _)
FindAll(tree, names, i) ==
    IF i > Len(tree) THEN <<>>
    ELSE (IF tree[i].name \in names /\ IsAncestor(tree, 0, i) THEN <<i>> ELSE <<>>)
         \o FindAll(tree, names, i + 1)

S_tooltiptext == <<"t", "o", "o", "l", "t", "i", "p", "t", "e", "x", "t">>

\* content.find_all("span", class_="tooltiptext"): the <span> elements that
\* have the class, in document order, from index i on.
RECURSIVE FindTooltips(_, _)
FindTooltips(tree, i) ==
    IF i > Len(tree) THEN <<>>
    ELSE (IF /\ tree[i].name = "span"
             /\ \E k \in 1..Len(tree[i].class.list) : tree[i].class.list[k] = S_tooltiptext
             /\ IsAncestor(tree, 0, i)
          THEN <<i>> ELSE <<>>)
         \o FindTooltips(tree, i + 1)

\* tag.replace_with(text): the tag leaves the tree, with everything below it,
\* and a new string takes its place.
ReplaceTag(tree, id, text) ==
    Append([tree EXCEPT ![id].parent = NoParent],
           [name |-> "#text", class |-> NoClass, parent |-> tree[id].parent, text |-> text,
            order |-> tree[id].order])

\* tag.decompose(): the tag leaves the tree, with everything below it.
Decompose(tree, id) == [tree EXCEPT ![id].parent = NoParent]

-----------------------------------------------------------------------------
(* get_markdown_from_formatted_tag.                                        *)

BASIC_HTML_COLOURS ==
    { <<"b", "l", "a", "c", "k">>,
      <<"s", "i", "l", "v", "e", "r">>,
      <<"g", "r", "a", "y">>,
      <<"w", "h", "i", "t", "e">>,
      <<"m", "a", "r", "o", "o", "n">>,
      <<"r", "e", "d">>,
      <<"p", "u", "r", "p", "l", "e">>,
      <<"f", "u", "c", "h", "s", "i", "a">>,
      <<"g", "r", "e", "e", "n">>,
      <<"l", "i", "m", "e">>,
      <<"o", "l", "i", "v", "e">>,
      <<"y", "e", "l", "l", "o", "w">>,
      <<"n", "a", "v", "y">>,
      <<"b", "l", "u", "e">>,
      <<"t", "e", "a", "l">>,
      <<"a", "q", "u", "a">> }

S_color == <<"\\", "c", "o", "l", "o", "r">>

S_bf == <<"\\", "b", "f">>

S_it == <<"\\", "i", "t">>

\* Lines 364-376: the LaTeX of a coloured span.
ColourMarkdown(tree, tag, colour) ==
    LET coloured == S_color \o <<"{">> \o colour \o <<"}", "{">> \o TextOf(tree, tag) \o <<"}">>
        bold     == IF FindChild(tree, tag, {"b", "strong"}) THEN S_bf \o coloured ELSE coloured
        italic   == IF FindChild(tree, tag, {"i", "em"}) THEN S_it \o bold ELSE bold
    IN  <<"$", "{">> \o italic \o <<"}", "$">>

NoMarkdown(exception) == [raised |-> exception, is_none |-> TRUE, str |-> <<>>]

Markdown(str) == [raised |-> "none", is_none |-> FALSE, str |-> str]

\* The exception raised ("none" when the call returns) and the value returned:
\* None or a string.  tag.get("class") is None for a <span> without the
\* attribute, and None[0] raises TypeError; None has no attribute "name".
get_markdown_from_formatted_tag(tree, tag) ==
    IF tag = NoParent THEN NoMarkdown("AttributeError")
    ELSE IF NameOf(tree, tag) = "span" THEN
        IF tree[tag].class.is_none THEN NoMarkdown("TypeError")
        ELSE IF tree[tag].class.list[1] \in BASIC_HTML_COLOURS
             THEN Markdown(ColourMarkdown(tree, tag, tree[tag].class.list[1]))
             ELSE NoMarkdown("none")
    ELSE IF NameOf(tree, tag) \in {"i", "em"} THEN
        Markdown(<<"*">> \o TextOf(tree, tag) \o <<"*">>)
    ELSE IF NameOf(tree, tag) \in {"b", "strong"} THEN
        Markdown(<<"*", "*">> \o TextOf(tree, tag) \o <<"*", "*">>)
    ELSE NoMarkdown("NotImplementedError")

\* Line 325: the Markdown of a tooltip.
TooltipMarkdown(target_text, tooltip_text) ==
    <<"[">> \o target_text \o <<"]", "(", "#", "#", " ", "\"">> \o tooltip_text \o <<"\"", ")">>

-----------------------------------------------------------------------------
(* The trees explored.                                                     *)

\* The most top-level children a tree given to a converter has.
MaxFragments == 2

\* A fragment is a sequence of elements in document order whose parents are
\* indexes into the fragment, 0 for the element the fragment is put under.
Leaf(text) == <<String(text, 0)>>

\* The fragment moved n places down the sequence it is part of.
Moved(fragment, n) ==
    [i \in 1..Len(fragment) |->
        [fragment[i] EXCEPT !.parent = IF @ = 0 THEN 0 ELSE @ + n]]

\* Two fragments one after the other under one parent.
Siblings(first, second) == first \o Moved(second, Len(first))

\* The fragment as the children of a new tag.
Wrap(name, class, fragment) ==
    <<Element(name, class, 0)>>
    \o [i \in 1..Len(fragment) |-> [fragment[i] EXCEPT !.parent = @ + 1]]

\* The tree of the fragments, one after the other under the description <div>.
RECURSIVE Joined(_)
Joined(fragments) ==
    IF fragments = <<>> THEN <<>> ELSE Siblings(Head(fragments), Joined(Tail(fragments)))

Tree(fragments) ==
    LET nodes == Joined(fragments)
    IN  [i \in 1..Len(nodes) |-> [nodes[i] EXCEPT !.order = i]]

S_red == <<"r", "e", "d">>

S_note == <<"n", "o", "t", "e">>

S_tooltip == <<"t", "o", "o", "l", "t", "i", "p">>

\* <span class="tooltiptext">t</span>
Tip == Wrap("span", Class(S_tooltiptext), Leaf(<<"t">>))

\* The visible text and the tooltip, as the children of a tag.
WithTip == Siblings(Leaf(<<"v">>), Tip)

\* Text, bold and italic elements, spans with a colour, with another class and
\* without a class, a colour span with bold and italic elements below it and
\* one below a bold element, and tooltips below a span with the class tooltip,
\* a colour span, a span without class, a bold element, a paragraph and the
\* description itself; two tooltips under one parent.
Fragments ==
    { Leaf(<<"w">>),
      Wrap("b", NoClass, Leaf(<<"w">>)),
      Wrap("i", NoClass, Leaf(<<"w">>)),
      Wrap("span", Class(S_red), Leaf(<<"w">>)),
      Wrap("span", Class(S_red), Wrap("b", NoClass, Leaf(<<"w">>))),
      Wrap("span", Class(S_red), Wrap("strong", NoClass, Wrap("em", NoClass, Leaf(<<"w">>)))),
      Wrap("b", NoClass, Wrap("span", Class(S_red), Leaf(<<"w">>))),
      Wrap("span", Class(S_note), Leaf(<<"w">>)),
      Wrap("span", NoClass, Leaf(<<"w">>)),
      Wrap("span", Class(S_tooltip), WithTip),
      Wrap("span", Class(S_red), WithTip),
      Wrap("span", NoClass, WithTip),
      Wrap("b", NoClass, WithTip),
      Wrap("p", NoClass, WithTip),
      Tip,
      Wrap("span", Class(S_tooltip), Siblings(Tip, Tip)) }

-----------------------------------------------------------------------------
(* convert_text_formatting_to_markdown and convert_tooltips_to_markdown.   *)

\* One of the two converters is called with a tree.
FormatInit ==
    /\ pc = "call"
    /\ function \in {"convert_text_formatting_to_markdown", "convert_tooltips_to_markdown"}
    /\ \E k \in 1..MaxFragments : \E fragments \in [1..k -> Fragments] :
          content = Tree(fragments)
    /\ original = content
    /\ tags = <<>>
    /\ raised = "none"
    /\ response_ok = TRUE
    /\ has_content = TRUE
    /\ has_h2 = TRUE
    /\ has_description = TRUE
    /\ github_workaround = FALSE
    /\ contents = <<>>
    /\ form = NoForm
    /\ remote_content = EmptyDict
    /\ returned_content = NoneDict
    /\ child_elements = <<>>
    /\ description_text = <<>>
    /\ result = NoResult

\* What the two converters never touch.
parse_vars ==
    <<response_ok, has_content, has_h2, has_description, contents, remote_content,
      returned_content, child_elements, description_text, result, github_workaround,
      original, form, function>>

\* Lines 305 and 404: find_all collects the tags the loop will visit.
FindTags ==
    /\ pc = "call"
    /\ tags' = IF function = "convert_tooltips_to_markdown"
               THEN FindTooltips(content, 1)
               ELSE FindAll(content, {"span", "i", "b"}, 1)
    /\ pc' = "loop"
    /\ UNCHANGED <<content, raised>>
    /\ UNCHANGED parse_vars

\* One turn of the loop of convert_text_formatting_to_markdown (lines 404-411).
\* replace_with raises ValueError for a tag that is not part of a tree.
FormatTag ==
    /\ pc = "loop"
    /\ function = "convert_text_formatting_to_markdown"
    /\ tags # <<>>
    /\ LET tag == Head(tags)
           equivalent_string == get_markdown_from_formatted_tag(content, tag)
       IN  IF equivalent_string.raised # "none"
           THEN raised' = equivalent_string.raised /\ pc' = "raised" /\ UNCHANGED <<content, tags>>
           ELSE IF equivalent_string.is_none
           THEN tags' = Tail(tags) /\ UNCHANGED <<content, raised, pc>>
           ELSE IF content[tag].parent = NoParent
           THEN raised' = "ValueError" /\ pc' = "raised" /\ UNCHANGED <<content, tags>>
           ELSE /\ content' = ReplaceTag(content, tag, equivalent_string.str)
                /\ tags' = Tail(tags)
                /\ UNCHANGED <<raised, pc>>
    /\ UNCHANGED parse_vars

\* One turn of the loop of convert_tooltips_to_markdown (lines 305-325).
TooltipTag ==
    /\ pc = "loop"
    /\ function = "convert_tooltips_to_markdown"
    /\ tags # <<>>
    /\ LET tag          == Head(tags)
           parent       == content[tag].parent
           tooltip_text == TextOf(content, tag)
           decomposed   == Decompose(content, tag)
           markdown     == get_markdown_from_formatted_tag(decomposed, parent)
           target_text  == IF markdown.is_none THEN TextOf(decomposed, parent)
                           ELSE markdown.str
       IN  IF markdown.raised # "none"
           THEN /\ raised' = markdown.raised
                /\ pc' = "raised"
                /\ content' = decomposed
                /\ UNCHANGED tags
           ELSE IF decomposed[parent].parent = NoParent
           THEN /\ raised' = "ValueError"
                /\ pc' = "raised"
                /\ content' = decomposed
                /\ UNCHANGED tags
           ELSE /\ content' = ReplaceTag(decomposed, parent,
                                         TooltipMarkdown(target_text, tooltip_text))
                /\ tags' = Tail(tags)
                /\ UNCHANGED <<raised, pc>>
    /\ UNCHANGED parse_vars

\* The loop has visited every tag: the converter returns.
FormatReturn ==
    /\ pc = "loop"
    /\ tags = <<>>
    /\ pc' = "returned"
    /\ UNCHANGED <<content, tags, raised>>
    /\ UNCHANGED parse_vars

FormatNext == FindTags \/ FormatTag \/ TooltipTag \/ FormatReturn

FormatSpec == FormatInit /\ [][FormatNext]_vars

-----------------------------------------------------------------------------
(* Vocabulary of the properties.                                           *)

\* The page has everything parse_contents looks for.
Complete == response_ok /\ has_content /\ has_h2 /\ has_description

Range(q) == {q[k] : k \in 1..Len(q)}

IsLink(i) == original[i].name \in {"a", "img"}

\* replace_tag_with_markdown_url has returned for the tag parsed at place i.
Converted(i) == Complete /\ pc # "start" /\ IsLink(i) /\ i \notin Range(tags)

\* replace_tag_with_markdown_url has raised for the tag parsed at place i.
Raising(i) == Complete /\ pc = "raised" /\ tags # <<>> /\ Head(tags) = i

\* sanitise_tag_text has not run: contents[i] is what stands at place i.
InPlace == pc \in {"convert_urls", "raised", "sanitise"}

\* parse_contents has returned a Challenge.
Returned == Complete /\ pc = "returned"

IsChallenge(tag) == tag.has_url /\ CHALLENGE_URL_REGEX(tag.url).matched

IsResource(tag) ==
    tag.has_url /\ ~CHALLENGE_URL_REGEX(tag.url).matched /\ RESOURCE_URL_REGEX(tag.url).matched

IsAbout(tag) ==
    /\ tag.has_url
    /\ ~CHALLENGE_URL_REGEX(tag.url).matched
    /\ ~RESOURCE_URL_REGEX(tag.url).matched
    /\ ABOUT_URL_REGEX(tag.url).matched

\* The sanitised file name of a resource tag.
FileName(tag) == sanitise_file_name(RESOURCE_URL_REGEX(tag.url).group)

\* The resource tags of the document whose file name can be sanitised.
Resources ==
    {i \in 1..Len(original) :
        IsLink(i) /\ IsResource(original[i]) /\ FileName(original[i]).raised = "none"}

Occurs(s, pat) == \E j \in 1..Len(s) : OccursAt(s, pat, j)

-----------------------------------------------------------------------------
(* C1 *)

\* url is "problem=" followed by the digits `number` and by no further digit.
ProblemNumber(url, number) ==
    /\ number # <<>>
    /\ \A k \in 1..Len(number) : number[k] \in Digits
    /\ StartsWith(url, S_problem \o number)
    /\ \/ Len(url) = Len(S_problem) + Len(number)
       \/ url[Len(S_problem) + Len(number) + 1] \notin Digits

\* C1: a hyperlink or image whose URL is "problem=<digits>" followed by
\* anything (resource-like or about-like text included) never makes
\* replace_tag_with_markdown_url raise, and is replaced by the Markdown link to
\* the challenge URL base followed by exactly those digits.
C1_ChallengeFirst ==
    \A i \in 1..Len(original) :
        \A n \in 1..(Len(original[i].url) - Len(S_problem)) :
            LET tag    == original[i]
                number == SubSeq(tag.url, Len(S_problem) + 1, Len(S_problem) + n)
            IN  (IsLink(i) /\ tag.has_url /\ ProblemNumber(tag.url, number)) =>
                    /\ ~Raising(i)
                    /\ (Converted(i) /\ InPlace) =>
                          contents[i] =
                              NavigableString(i,
                                  (IF tag.name = "img" THEN <<"!">> ELSE <<>>)
                                  \o <<"[">> \o tag.text \o <<"]", "(">>
                                  \o CHALLENGE_URL_BASE \o number \o <<")">>)

\* A challenge link with resource-like text behind the number was converted.
C1_Witness ==
    \E i \in 1..Len(original) :
        /\ Converted(i)
        /\ InPlace
        /\ StartsWith(original[i].url, S_problem \o <<"1">>)
        /\ Occurs(original[i].url, S_resources)

-----------------------------------------------------------------------------
(* C2 *)

\* The only tag of the document has been handed to replace_tag_with_markdown_url.
FormHandled == form.is_form /\ Complete /\ pc # "start" /\ (pc = "convert_urls" => tags = <<>>)

\* C2: for a resource URL <prefix>/(resources|images)/<subpath>/<id>_<name>.<ext>?<query>
\* the file name recorded for it is exactly <name>.<ext>.
C2_FileNameOfForm ==
    FormHandled =>
        /\ raised = "none"
        /\ DOMAIN remote_content = {form.name \o <<".">> \o form.ext}

-----------------------------------------------------------------------------
(* C3 *)

\* The URL is missing or matches none of the three patterns.
Unclassified(tag) ==
    \/ ~tag.has_url
    \/ /\ ~CHALLENGE_URL_REGEX(tag.url).matched
       /\ ~RESOURCE_URL_REGEX(tag.url).matched
       /\ ~ABOUT_URL_REGEX(tag.url).matched

\* C3: a hyperlink or image whose URL is missing or matches none of the three
\* patterns is never replaced; the conversion stops at it with
\* NotImplementedError and parse_contents returns nothing.
C3_UnknownLinkAborts ==
    \A i \in 1..Len(original) :
        (IsLink(i) /\ Unclassified(original[i])) =>
            /\ ~Converted(i)
            /\ Raising(i) => (raised = "NotImplementedError" /\ result = NoResult)

-----------------------------------------------------------------------------
(* C4 *)

\* C4: when two resource tags with distinct URLs sanitise to one file name and
\* the first has been converted, the second is never converted; when it is
\* reached the conversion stops with KeyError, the entry of the file name is
\* still the URL recorded first, and neither a manifest nor a result is returned.
C4_DuplicateResource ==
    \A i \in Resources : \A j \in Resources :
        (/\ i < j
         /\ original[i].url # original[j].url
         /\ FileName(original[i]).value = FileName(original[j]).value
         /\ Converted(i)) =>
            /\ ~Converted(j)
            /\ Raising(j) =>
                  /\ raised = "KeyError"
                  /\ FileName(original[j]).value \in DOMAIN remote_content
                  /\ remote_content[FileName(original[j]).value] # URL_BASE \o original[j].url
                  /\ \E k \in Resources :
                        /\ k < j
                        /\ Converted(k)
                        /\ remote_content[FileName(original[j]).value] = URL_BASE \o original[k].url
                  /\ returned_content = NoneDict
                  /\ result = NoResult

\* The second of two resources with one file name and distinct URLs raised KeyError.
C4_Witness ==
    \E i \in Resources : \E j \in Resources :
        /\ i < j
        /\ original[i].url # original[j].url
        /\ FileName(original[i]).value = FileName(original[j]).value
        /\ Converted(i)
        /\ Raising(j)
        /\ raised = "KeyError"

-----------------------------------------------------------------------------
(* C5 *)

\* convert_urls_to_markdown has returned.
UrlsConverted == Complete /\ pc \in {"sanitise", "construct", "returned"}

\* C5: when convert_urls_to_markdown returns for a document with k resource
\* references (their file names are then pairwise distinct), it returns None if
\* k = 0 and otherwise a dictionary with exactly k keys that maps every
\* sanitised file name to the base URL followed by the raw URL of its tag.
C5_ManifestEntries ==
    UrlsConverted =>
        /\ \A i \in Resources : \A j \in Resources :
              i # j => FileName(original[i]).value # FileName(original[j]).value
        /\ Resources = {} => returned_content = NoneDict
        /\ Resources # {} =>
              /\ ~returned_content.is_none
              /\ Cardinality(DOMAIN returned_content.dict) = Cardinality(Resources)
              /\ \A i \in Resources :
                    /\ FileName(original[i]).value \in DOMAIN returned_content.dict
                    /\ returned_content.dict[FileName(original[i]).value]
                          = URL_BASE \o original[i].url

\* A manifest of two entries was returned for a document that also holds a challenge link.
C5_Witness ==
    /\ UrlsConverted
    /\ Cardinality(Resources) = 2
    /\ Cardinality(DOMAIN returned_content.dict) = 2
    /\ \E i \in 1..Len(original) : IsLink(i) /\ IsChallenge(original[i])

-----------------------------------------------------------------------------
(* C6 *)

-----------------------------------------------------------------------------
(* C7 *)

\* C7: a converted hyperlink to a challenge is replaced by
\* "[<its text>](<challenge URL base><number>)", a converted hyperlink to an
\* about page by "[<its text>](<base URL><its URL>)", and every key of the
\* dictionary is the file name of a converted resource tag.
C7_ChallengeAndAboutLinks ==
    /\ \A i \in 1..Len(original) :
          (original[i].name = "a" /\ Converted(i) /\ InPlace) =>
              /\ IsChallenge(original[i]) =>
                    contents[i] =
                        NavigableString(i,
                            <<"[">> \o original[i].text \o <<"]", "(">> \o CHALLENGE_URL_BASE
                            \o CHALLENGE_URL_REGEX(original[i].url).group \o <<")">>)
              /\ IsAbout(original[i]) =>
                    contents[i] =
                        NavigableString(i,
                            <<"[">> \o original[i].text \o <<"]", "(">> \o URL_BASE
                            \o original[i].url \o <<")">>)
    /\ \A key \in DOMAIN remote_content :
          \E i \in Resources : Converted(i) /\ FileName(original[i]).value = key

\* A challenge link and an about link were converted and the dictionary is empty.
C7_Witness ==
    /\ pc = "sanitise"
    /\ remote_content = EmptyDict
    /\ \E i \in 1..Len(original) :
          original[i].name = "a" /\ IsChallenge(original[i]) /\ Converted(i)
    /\ \E i \in 1..Len(original) :
          original[i].name = "a" /\ IsAbout(original[i]) /\ Converted(i)

-----------------------------------------------------------------------------
(* C8 *)

\* The text is one or more characters, all of them whitespace.
EntirelyWhitespace(t) == t # <<>> /\ \A k \in 1..Len(t) : t[k] \in Whitespace

\* The text without its leading and trailing newlines.
RECURSIVE TrimNewlines(_)
TrimNewlines(t) ==
    IF t # <<>> /\ Head(t) = "\n" THEN TrimNewlines(Tail(t))
    ELSE IF t # <<>> /\ t[Len(t)] = "\n" THEN TrimNewlines(SubSeq(t, 1, Len(t) - 1))
    ELSE t

\* The children in document order: the whitespace ones dropped, every other
\* one trimmed of its outer newlines and put between two newlines.
RECURSIVE JoinChildren(_)
JoinChildren(cs) ==
    IF cs = <<>> THEN <<>>
    ELSE (IF EntirelyWhitespace(Head(cs).text) THEN <<>>
          ELSE <<"\n">> \o TrimNewlines(Head(cs).text) \o <<"\n">>)
         \o JoinChildren(Tail(cs))

\* C8: the text sanitise_tag_text assembles from the children of the
\* description (and then hands to its substitutions) is the text of the
\* children joined in document order as above, stripped of its outer whitespace.
C8_AssembledText ==
    (Complete /\ pc \in {"construct", "returned"}) =>
        description_text = post_process(strip(JoinChildren(child_elements)), github_workaround)

-----------------------------------------------------------------------------
(* C9 *)

\* C9: the description of the returned Challenge holds the text of every bold
\* element between "**" and the text of every italic element between "*".
C9_BoldAndItalic ==
    Returned =>
        \A i \in 1..Len(original) :
            /\ original[i].name \in {"b", "strong"} =>
                  Occurs(result.description, <<"*", "*">> \o original[i].text \o <<"*", "*">>)
            /\ original[i].name \in {"i", "em"} =>
                  Occurs(result.description, <<"*">> \o original[i].text \o <<"*">>)

-----------------------------------------------------------------------------
(* C10 *)

\* C10: for a successful response whose page lacks the content <div>, the
\* title or the description, parse_contents raises ValueError and returns nothing.
C10_StructureNotFound ==
    (response_ok /\ ~Complete /\ pc # "start") =>
        /\ pc = "raised"
        /\ raised = "ValueError"
        /\ result = NoResult

-----------------------------------------------------------------------------
(* C11 *)

\* The text sanitise_tag_text assembled, from the copy it took of the children.
Assembled == assembled_text(child_elements)

\* sanitise_tag_text has returned its text.
Sanitised == Complete /\ pc \in {"construct", "returned"}

\* Is the character at index i a backslash with a brace right after it?
BeforeBrace(t, i) == t[i] = "\\" /\ i < Len(t) /\ t[i + 1] \in {"{", "}"}

\* The text with every backslash that stands before a brace written twice,
\* and every other character as it was.
DoubledBeforeBraces(t) ==
    Concat([i \in 1..Len(t) |-> IF BeforeBrace(t, i) THEN <<"\\", "\\">> ELSE <<t[i]>>])

\* The steps that follow the brace escaping.
AfterEscaping(t) ==
    IF github_workaround
    THEN latex_workaround(operatorname_workaround(wrap_multiline_latex(t)))
    ELSE wrap_multiline_latex(t)

\* C11: the text that reaches the steps after the brace escaping is the
\* assembled text with the backslash of every "\{" and "\}" doubled and no
\* other character changed.
C11_BraceEscaping ==
    Sanitised => description_text = AfterEscaping(DoubledBeforeBraces(Assembled))

\* A text with "\{" and "\}" was post-processed.
C11_Witness ==
    /\ Returned
    /\ Occurs(Assembled, <<"\\", "{">>)
    /\ Occurs(Assembled, <<"\\", "}">>)
    /\ Occurs(result.description, <<"\\", "\\", "}">>)

-----------------------------------------------------------------------------
(* C12 *)

\* The index of the first "}" of s from index i on, 0 when there is none.
ClosingBrace(s, i) ==
    LET K == {k \in i..Len(s) : s[k] = "}"} IN IF K = {} THEN 0 ELSE Min(K)

\* The name of the environment that "\begin{" at index i opens.
EnvName(s, i) == SubSeq(s, i + Len(S_begin), ClosingBrace(s, i + Len(S_begin)) - 1)

\* The number of places in from..to where pat occurs in s.
CountIn(s, pat, from, to) == Cardinality({k \in from..to : OccursAt(s, pat, k)})

\* The index of the last character of the block that "\begin{<env>}" opens at
\* index i: it ends with the "\end{<env>}" that matches, the first one with as
\* many \begin{<env>} as \end{<env>} in between.  0 when no block opens at i.
BlockEnd(s, i) ==
    LET env   == EnvName(s, i)
        open  == S_begin \o env \o <<"}">>
        close == S_end \o env \o <<"}">>
        K == {k \in (i + Len(open))..Len(s) :
                 /\ OccursAt(s, close, k)
                 /\ CountIn(s, open, i + 1, k - 1) = CountIn(s, close, i + 1, k - 1)}
    IN  IF OccursAt(s, S_begin, i) /\ ClosingBrace(s, i + Len(S_begin)) > i + Len(S_begin)
           /\ K # {}
        THEN Min(K) + Len(close) - 1
        ELSE 0

\* Is the block i..e enclosed in "$$", directly or with one newline in between?
Enclosed(s, i, e) ==
    /\ EndsAt(s, <<"$", "$">>, i - 1) \/ EndsAt(s, <<"$", "$", "\n">>, i - 1)
    /\ OccursAt(s, <<"$", "$">>, e + 1) \/ OccursAt(s, <<"\n", "$", "$">>, e + 1)

\* The text from index i on with every block that is not enclosed put
\* between "$$\n" and "\n$$", and everything else as it was.
RECURSIVE WrappedBlocks(_, _)
WrappedBlocks(s, i) ==
    IF i > Len(s) THEN <<>>
    ELSE LET e == BlockEnd(s, i)
         IN  IF e = 0 THEN <<s[i]>> \o WrappedBlocks(s, i + 1)
             ELSE (IF Enclosed(s, i, e) THEN SubSeq(s, i, e)
                   ELSE <<"$", "$", "\n">> \o SubSeq(s, i, e) \o <<"\n", "$", "$">>)
                  \o WrappedBlocks(s, e + 1)

\* The steps that follow the multi-line wrapping.
AfterWrapping(t) ==
    IF github_workaround THEN latex_workaround(operatorname_workaround(t)) ELSE t

\* C12: the text that reaches the steps after the multi-line wrapping is the
\* escaped text with every block \begin{<env>}...\end{<env>} that is not
\* enclosed in "$$" wrapped as "$$", newline, block, newline, "$$", the block
\* and the text outside the blocks unchanged.
C12_BlocksWrapped ==
    Sanitised =>
        description_text = AfterWrapping(WrappedBlocks(escape_braces(Assembled), 1))

-----------------------------------------------------------------------------
(* C13 *)

\* The text the trailing-word workaround is applied to.
BeforeLatexWorkaround ==
    operatorname_workaround(wrap_multiline_latex(escape_braces(Assembled)))

\* The number of "$" before index i.
DollarsBefore(s, i) == Cardinality({k \in 1..(i - 1) : s[k] = "$"})

\* An inline expression opens at index i: a single "$" (none right before
\* it) that does not close an earlier expression, a non-empty expression free
\* of "$", and a single closing "$" (none right after it).  The index of the
\* closing "$", 0 when no inline expression opens at i.
InlineClose(s, i) ==
    LET D == {j \in (i + 1)..Len(s) : s[j] = "$"}
    IN  IF /\ s[i] = "$"
           /\ DollarsBefore(s, i) % 2 = 0
           /\ (i = 1 \/ s[i - 1] # "$")
           /\ D # {}
           /\ Min(D) > i + 1
           /\ (Min(D) = Len(s) \/ s[Min(D) + 1] # "$")
        THEN Min(D)
        ELSE 0

\* The text from index i on with the word after every inline expression
\* folded into the expression, and everything else as it was.
RECURSIVE WordsFolded(_, _)
WordsFolded(s, i) ==
    IF i > Len(s) THEN <<>>
    ELSE LET j == InlineClose(s, i)
             w == RunEnd(s, j + 1, WordChars)
         IN  IF j = 0 THEN <<s[i]>> \o WordsFolded(s, i + 1)
             ELSE IF w = j THEN SubSeq(s, i, j) \o WordsFolded(s, j + 1)
             ELSE SubSeq(s, i, j - 1) \o S_text \o SubSeq(s, j + 1, w) \o <<"}", "$">>
                  \o WordsFolded(s, w + 1)

\* C13: with the workaround flag enabled, the returned text is the text
\* before the workaround with every inline expression $<expr>$ that a word
\* follows rewritten to $<expr>\text{<word>}$; inline expressions without a
\* word, block expressions and all other text are as they were.
C13_TrailingWordFolded ==
    (Sanitised /\ github_workaround) =>
        description_text = WordsFolded(BeforeLatexWorkaround, 1)

-----------------------------------------------------------------------------
(* C14 *)

\* The text the workarounds are applied to.
BeforeWorkarounds == wrap_multiline_latex(escape_braces(Assembled))

\* "\operatorname{<name>}<rest>=" occurs at index i: a name up to the first
\* "}", then a rest of one character or more and "=", all on one line.  The
\* index of the "}", 0 when there is no occurrence.
OperatornameAt(s, i) ==
    LET a == i + Len(S_operatorname) + 1
        b == ClosingBrace(s, a)
    IN  IF /\ OccursAt(s, S_operatorname \o <<"{">>, i)
           /\ b > a
           /\ \E e \in (b + 2)..Len(s) : s[e] = "=" /\ \A k \in a..e : s[k] # "\n"
        THEN b
        ELSE 0

\* The text from index i on with "\mathop{\text{<name>}}" in the place of
\* "\operatorname{<name>}" at every occurrence, and everything else as it was.
RECURSIVE OperatornamesRewritten(_, _)
OperatornamesRewritten(s, i) ==
    IF i > Len(s) THEN <<>>
    ELSE LET b == OperatornameAt(s, i)
         IN  IF b = 0 THEN <<s[i]>> \o OperatornamesRewritten(s, i + 1)
             ELSE S_mathop_text \o SubSeq(s, i + Len(S_operatorname) + 1, b - 1)
                  \o <<"}", "}">> \o OperatornamesRewritten(s, b + 1)

\* C14: with the workaround flag enabled, the text that reaches the
\* trailing-word workaround has every "\operatorname{<name>}<rest>=" rewritten
\* to "\mathop{\text{<name>}}<rest>="; with the flag disabled the returned text
\* is the text as the brace escaping and the multi-line wrapping left it.
C14_OperatornameRewritten ==
    Sanitised =>
        description_text =
            IF github_workaround
            THEN latex_workaround(OperatornamesRewritten(BeforeWorkarounds, 1))
            ELSE BeforeWorkarounds

-----------------------------------------------------------------------------
(* C15 *)

\* The text with an ordinary space in the place of every non-breaking space.
SpacesNormalised(t) == [i \in 1..Len(t) |-> IF t[i] = NBSP THEN " " ELSE t[i]]

\* C15: the returned text holds no non-breaking space: the later steps were
\* applied to the assembled text with an ordinary space in the place of every
\* non-breaking space.
C15_NoNonBreakingSpace ==
    Sanitised =>
        /\ NBSP \notin Range(description_text)
        /\ description_text = post_process(SpacesNormalised(Assembled), github_workaround)

-----------------------------------------------------------------------------
(* C16 *)

\* A filename with an extension can be located in the name: a character or
\* more, a ".", a character or more.
HasExtension(file_name) == \E d \in 2..(Len(file_name) - 1) : file_name[d] = "."

\* C16: a resource tag whose file name holds no filename with an extension is
\* never converted: when it is reached the conversion stops with ValueError,
\* no file name is recorded for it and nothing is returned.  A converted
\* resource tag has a "." in its file name.
C16_ExtensionRequired ==
    \A i \in 1..Len(original) :
        (IsLink(i) /\ IsResource(original[i])) =>
            LET file_name == RESOURCE_URL_REGEX(original[i].url).group
            IN  /\ ~HasExtension(file_name) =>
                      /\ ~Converted(i)
                      /\ Raising(i) =>
                            /\ raised = "ValueError"
                            /\ \A k \in DOMAIN remote_content :
                                  remote_content[k] # remote_url(original[i].url)
                            /\ result = NoResult
                /\ Converted(i) => "." \in Range(file_name)

\* The conversion has stopped at a resource whose file name ends with its only ".".
C16_Witness ==
    /\ Raising(1)
    /\ raised = "ValueError"
    /\ IsResource(original[1])
    /\ RESOURCE_URL_REGEX(original[1].url).group = <<"a", ".">>

-----------------------------------------------------------------------------
(* C17 *)

\* convert_text_formatting_to_markdown was called.
Formatting == function = "convert_text_formatting_to_markdown"

\* The <span> elements right under the description, as they were given.
TopSpans == {i \in 1..Len(original) : original[i].name = "span" /\ original[i].parent = 0}

\* The class of the span is one of the colour keywords.
IsColourSpan(i) ==
    /\ ~original[i].class.is_none
    /\ Len(original[i].class.list) = 1
    /\ original[i].class.list[1] \in BASIC_HTML_COLOURS

\* ${\color{<name>}{<text>}}$ with \bf and \it in front of \color for a bold
\* and an italic descendant.
ColourLatex(i) ==
    <<"$", "{">>
    \o (IF FindChild(original, i, {"i", "em"}) THEN S_it ELSE <<>>)
    \o (IF FindChild(original, i, {"b", "strong"}) THEN S_bf ELSE <<>>)
    \o S_color \o <<"{">> \o original[i].class.list[1] \o <<"}", "{">>
    \o TextOf(original, i) \o <<"}", "}", "$">>

\* The element i has left the tree and the text stands in its place.
ReplacedBy(i, text) ==
    /\ content[i].parent = NoParent
    /\ \E x \in 1..Len(content) :
          /\ content[x].name = "#text"
          /\ content[x].parent = original[i].parent
          /\ content[x].order = original[i].order
          /\ content[x].text = text

\* The conversion has stopped at the element i.
RaisedAt(i) == pc = "raised" /\ tags # <<>> /\ Head(tags) = i

\* C17: when the formatting converter returns, every span whose class is a
\* colour keyword has been replaced by its inline LaTeX; every other span is
\* as it was given and the conversion never stops at it with an error.
C17_ColourSpans ==
    Formatting =>
        \A i \in TopSpans :
            IF IsColourSpan(i)
            THEN pc = "returned" => ReplacedBy(i, ColourLatex(i))
            ELSE content[i] = original[i] /\ ~RaisedAt(i)

-----------------------------------------------------------------------------
(* C18 *)

\* convert_tooltips_to_markdown was called.
ConvertingTooltips == function = "convert_tooltips_to_markdown"

\* The spans with the class tooltiptext, as they were given.
Tooltips ==
    {t \in 1..Len(original) :
        /\ original[t].name = "span"
        /\ \E k \in 1..Len(original[t].class.list) : original[t].class.list[k] = S_tooltiptext}

\* The parent of the tooltip is a span, a bold or an italic element.
HasFormattableParent(t) ==
    /\ original[t].parent > 0
    /\ original[original[t].parent].name \in {"span", "b", "strong", "i", "em"}

\* The text of the tooltip's parent without the tooltip, formatted by the
\* rules for bold, italic and colour when the parent carries such formatting.
VisibleText(t) ==
    LET parent  == original[t].parent
        without == Decompose(original, t)
        text    == TextOf(without, parent)
    IN  IF original[parent].name \in {"b", "strong"} THEN <<"*", "*">> \o text \o <<"*", "*">>
        ELSE IF original[parent].name \in {"i", "em"} THEN <<"*">> \o text \o <<"*">>
        ELSE IF IsColourSpan(parent)
        THEN <<"$", "{">> \o S_color \o <<"{">> \o original[parent].class.list[1]
             \o <<"}", "{">> \o text \o <<"}", "}", "$">>
        ELSE text

\* [<visible text>](## "<tooltip text>")
TooltipLink(t) ==
    <<"[">> \o VisibleText(t) \o <<"]", "(", "#", "#", " ", "\"">> \o TextOf(original, t)
    \o <<"\"", ")">>

\* C18: the tooltip converter never stops at a tooltip whose parent is a span,
\* a bold or an italic element, and when it returns the parent has been replaced
\* by the tooltip's link; it never returns when the parent of a tooltip is
\* another element, and stops at such a tooltip with NotImplementedError.
C18_Tooltips ==
    ConvertingTooltips =>
        \A t \in Tooltips :
            IF HasFormattableParent(t)
            THEN /\ ~RaisedAt(t)
                 /\ pc = "returned" => ReplacedBy(original[t].parent, TooltipLink(t))
            ELSE /\ pc # "returned"
                 /\ RaisedAt(t) => raised = "NotImplementedError"

-----------------------------------------------------------------------------
(* C19 *)

\* The description holds an element of one of the names.
Holds(names) == \E k \in 1..Len(contents) : contents[k].name \in names

\* C19: the stages run one after the other on the whole description.  When
\* the link rewriting starts the inline-formatting conversion has finished: no
\* bold or italic element is left.  When the text assembly starts the link
\* rewriting has finished: no hyperlink or image is left.  The returned text
\* is the assembled text after the brace escaping, then the multi-line
\* wrapping, then the operatorname workaround, then the trailing-word workaround.
C19_StageOrder ==
    /\ (Complete /\ pc \in {"convert_urls", "sanitise", "construct", "returned"}) =>
            ~Holds({"b", "strong", "i", "em"})
    /\ (Complete /\ pc \in {"sanitise", "construct", "returned"}) => ~Holds({"a", "img"})
    /\ Sanitised =>
            description_text =
                IF github_workaround
                THEN latex_workaround(operatorname_workaround(
                         wrap_multiline_latex(escape_braces(Assembled))))
                ELSE wrap_multiline_latex(escape_braces(Assembled))

-----------------------------------------------------------------------------
(* C20 *)

\* Every block of the text is delimited by "$$" before its "\begin" and
\* after its "\end", directly or with one newline in between.
AllBlocksDelimited(s) ==
    \A i \in 1..Len(s) : BlockEnd(s, i) > 0 => Enclosed(s, i, BlockEnd(s, i))

\* The multi-line wrapping returns a text whose blocks are all delimited as it was.
DelimitedUnchanged ==
    (Sanitised /\ ~github_workaround /\ AllBlocksDelimited(escape_braces(Assembled))) =>
        description_text = escape_braces(Assembled)

\* C20: a text whose blocks are all delimited by "$$" leaves the multi-line
\* wrapping unchanged, and the wrapping applied to its own output (the text
\* returned with the workaround flag disabled) changes nothing.
C20_NoRewrapping ==
    /\ DelimitedUnchanged
    /\ (Sanitised /\ ~github_workaround) =>
            wrap_multiline_latex(description_text) = description_text

-----------------------------------------------------------------------------
(* C21 *)

\* The colour spans of the tree as it was given, at any depth.
ColourSpans == {i \in 1..Len(original) : original[i].name = "span" /\ IsColourSpan(i)}

\* The colour span has a bold or italic element below it or above it.
NestedWithBoldOrItalic(i) ==
    \/ FindChild(original, i, {"b", "strong", "i", "em"})
    \/ \E x \in 1..Len(original) :
          original[x].name \in {"b", "strong", "i", "em"} /\ IsAncestor(original, x, i)

\* C21: when the formatting converter returns, the text of the description
\* holds the LaTeX form (with its \bf and \it) of every colour span that is
\* nested with a bold or italic element, whichever of the two is the outer one.
C21_ColourBeforeBold ==
    (Formatting /\ pc = "returned") =>
        \A i \in ColourSpans :
            NestedWithBoldOrItalic(i) => Occurs(TextOf(content, 0), ColourLatex(i))

-----------------------------------------------------------------------------
(* C22 *)

\* C22: every key of the resource manifest is a single path component: no
\* file name recorded for a resource holds a "/".
C22_SinglePathComponent ==
    \A k \in DOMAIN remote_content : "/" \notin Range(k)

-----------------------------------------------------------------------------
(* C23 *)

\* Two resource tags of the document with one and the same URL.
SameUrl(i, j) ==
    /\ i \in Resources
    /\ j \in Resources
    /\ i # j
    /\ original[i].url = original[j].url

\* C23: of two resource tags with the same URL at most one is ever converted;
\* when the other is reached the conversion stops with KeyError although the
\* URL recorded under its file name is its own, the manifest is left as it was,
\* and the document never gets a manifest or a result.
C23_SameUrlTwice ==
    \A i \in 1..Len(original) : \A j \in 1..Len(original) :
        SameUrl(i, j) =>
            /\ ~(Converted(i) /\ Converted(j))
            /\ (Converted(i) /\ Raising(j)) =>
                  /\ raised = "KeyError"
                  /\ FileName(original[j]).value \in DOMAIN remote_content
                  /\ remote_content[FileName(original[j]).value] = remote_url(original[j].url)
            /\ returned_content = NoneDict
            /\ result = NoResult
            /\ ~Returned

\* The second of two resource tags with one URL raised KeyError.
C23_Witness ==
    \E i \in 1..Len(original) : \E j \in 1..Len(original) :
        /\ SameUrl(i, j)
        /\ Converted(i)
        /\ Raising(j)
        /\ raised = "KeyError"
        /\ remote_content[FileName(original[j]).value] = remote_url(original[j].url)

-----------------------------------------------------------------------------
(* C24 *)

\* C24: the trailing-word workaround is idempotent: with the workaround flag
\* enabled, applying the substitution again to the text sanitise_tag_text
\* returned (the output of the substitution) gives that text unchanged.
C24_WorkaroundIdempotent ==
    (Sanitised /\ github_workaround) =>
        latex_workaround(description_text) = description_text

====
